---- MODULE Spec2Model ----
(***************************************************************************)
(* Model of the SBOM scan pipeline of src/aws-inspector-cdk/app.py:        *)
(* the SbomScanStateMachine workflow (InitiateSbomScan, CheckScanStatus,   *)
(* IsScanComplete, WaitForScanCompletion, GetScanResults), the Lambda      *)
(* handlers it invokes, the results bucket they write, and the             *)
(* TriggerSbomScanLambda handler that starts executions.                   *)
(*                                                                         *)
(* Python strings that the code slices, tests or concatenates are          *)
(* sequences of one-character strings; Python dicts are records or         *)
(* functions; the absent value None is the tuple <<"None">>.               *)
(***************************************************************************)
EXTENDS Integers, Sequences, FiniteSets, TLC

VARIABLES
    executions,   \* executions of SbomScanStateMachine, in start order
    scans,        \* the Scan Service's scans, in creation order
    store,        \* the results bucket: key -> body
    trigger,      \* last invocation of TriggerSbomScanLambda
    probe,        \* input and output of the severity count under test
    periodic,     \* the SBOM bucket and the invocations of ListSbomsLambda
    rerun,        \* what the first run of GetScanResultsLambda left behind
    report        \* last run of a reporting tool

vars == <<executions, scans, store, trigger, probe, periodic, rerun, report>>

----------------------------------------------------------------------------
(* Bounds *)

MaxExecs == 2          \* executions ever started
ExecTimeout == 3       \* the 2-hour execution timeout, in 30-second waits
MaxBatch == 2          \* records in one notification batch
MaxFindings == 5       \* findings in a collection given to the count
MaxTicks == 3          \* invocations of ListSbomsLambda
PageSize == 1          \* keys in one page of a listing (S3: 1000)
ListFindingsPage == 2  \* findings in one response of list_findings
MaxRuns == 2           \* runs of the reporting tools

----------------------------------------------------------------------------
(* Strings *)

None == <<"None">>

s_sboms == <<"s","b","o","m","s","/">>
s_scans == <<"s","c","a","n","s","/">>
s_s3 == <<"s","3",":","/","/">>
s_slash == <<"/">>
s_scan_details == <<"s","c","a","n","-","d","e","t","a","i","l","s",".","j","s","o","n">>
s_findings == <<"f","i","n","d","i","n","g","s",".","j","s","o","n">>
s_summary == <<"s","u","m","m","a","r","y",".","j","s","o","n">>
s_json == <<".","j","s","o","n">>
s_xml == <<".","x","m","l">>

\* str.startswith
StartsWith(s, p) == Len(s) >= Len(p) /\ SubSeq(s, 1, Len(p)) = p

\* str.endswith
EndsWith(s, p) == Len(s) >= Len(p) /\ SubSeq(s, Len(s) - Len(p) + 1, Len(s)) = p

----------------------------------------------------------------------------
(* Inputs *)

SbomBucket == <<"b","k">>          \* os.environ['SBOM_BUCKET']

ObjectKeys == {
    <<"s","b","o","m","s","/","a",".","j","s","o","n">>,
    <<"s","b","o","m","s","/","b",".","x","m","l">>,
    <<"s","b","o","m","s">>,
    <<"r","e","p","o","r","t","s","/","r","e","a","d","m","e",".","t","x","t">> }

ScanNames == {"sbom-scan-t1-u1", "sbom-scan-t2-u2"}

Severities == {"CRITICAL", "HIGH", "MEDIUM", "LOW", "INFORMATIONAL"}

\* severities the Scan Service can attach to a finding
ServiceSeverities == Severities \cup {"UNTRIAGED"}

\* a finding with no severity field, and findings with one
FindingValues == {[vulnerabilityId |-> "CVE"]} \cup
    {[vulnerabilityId |-> "CVE", severity |-> s] : s \in ServiceSeverities}

Finding(s) == [vulnerabilityId |-> "CVE", severity |-> s]

\* how the Scan Service may finish a scan: the status it leaves IN_PROGRESS
\* for, the findings it then lists, and whether it reports a completion time
ScanResults == {
    [status |-> "SUCCEEDED", findings |-> <<Finding("HIGH")>>,
     hasCompletedAt |-> TRUE],
    [status |-> "SUCCEEDED",
     findings |-> <<[vulnerabilityId |-> "CVE"], Finding("UNTRIAGED")>> \o
                  [i \in 1..(ListFindingsPage - 1) |-> Finding("LOW")],
     hasCompletedAt |-> FALSE],
    [status |-> "FAILED", findings |-> <<>>, hasCompletedAt |-> TRUE] }

----------------------------------------------------------------------------
(* The Scan Service (inspector2 client) *)

Digits == <<"1","2","3","4","5","6","7","8","9">>

\* the identifier the service gives to its n-th scan
ScanIdOf(n) == <<"i", "d", Digits[n]>>

\* inspector.create_sbom_scan(name, sbomFormat, sbomUrl): the new scan
NewScan(n, name, format, url) ==
    [sbomScanId |-> ScanIdOf(n), name |-> name, sbomFormat |-> format,
     sbomUrl |-> url, status |-> "IN_PROGRESS", findings |-> <<>>,
     hasCompletedAt |-> FALSE]

ScanKnown(id) == \E i \in 1..Len(scans) : scans[i].sbomScanId = id

ScanOf(id) == scans[CHOOSE i \in 1..Len(scans) : scans[i].sbomScanId = id]

\* inspector.get_sbom_scan(sbomScanId): the response dict
GetSbomScanResponse(scan) ==
    IF scan.hasCompletedAt
    THEN [sbomScanId |-> scan.sbomScanId, status |-> scan.status,
          completedAt |-> <<"datetime", 1>>]
    ELSE [sbomScanId |-> scan.sbomScanId, status |-> scan.status]

\* the findings the service holds for the scan the filter value names
FindingsOf(value) == IF ScanKnown(value) THEN ScanOf(value).findings ELSE <<>>

\* one response of list_findings: the page of findings that starts at
\* position token, and a nextToken when more findings follow it
ListFindingsCall(all, token) ==
    LET last == IF token + ListFindingsPage - 1 < Len(all)
                THEN token + ListFindingsPage - 1 ELSE Len(all)
    IN IF last < Len(all)
       THEN [findings |-> SubSeq(all, token, last), nextToken |-> last + 1]
       ELSE [findings |-> SubSeq(all, token, last)]

RECURSIVE ListFindingsPages(_, _)
\* for page in paginator.paginate(...): findings.extend(page['findings'])
ListFindingsPages(all, token) ==
    LET page == ListFindingsCall(all, token) IN
    IF "nextToken" \in DOMAIN page
    THEN page.findings \o ListFindingsPages(all, page.nextToken)
    ELSE page.findings

\* inspector.list_findings(filterCriteria sbomScanArn EQUALS value), called
\* once and without a nextToken
ListFindingsResponse(value) == ListFindingsCall(FindingsOf(value), 1)

----------------------------------------------------------------------------
(* InitiateSbomScanLambda.handler *)

InitiateBucket(event) ==
    IF "bucket" \in DOMAIN event THEN event.bucket ELSE SbomBucket

InitiateFormat(event) ==
    IF "format" \in DOMAIN event THEN event.format ELSE "CYCLONEDX_1_4"

\* s3_url = f"s3://{s3_bucket}/{s3_key}"
S3Url(s3_bucket, s3_key) == s_s3 \o s3_bucket \o s_slash \o s3_key

\* variant: the first scan's identifier is handed on, whatever scan was made
InitiateReturn_FirstId(response, scan_name, s3_url) ==
    [scanId |-> ScanIdOf(1), scanName |-> scan_name, sbomUrl |-> s3_url]

InitiateReturn(response, scan_name, s3_url) ==
    [scanId |-> response.sbomScanId, scanName |-> scan_name, sbomUrl |-> s3_url]

----------------------------------------------------------------------------
(* CheckScanStatusLambda.handler *)

\* variant: every answer counts as done
IsDone_Always(status) == TRUE

\* variant: only SUCCEEDED counts as done
IsDone_OnlySucceeded(status) == status = "SUCCEEDED"

IsDone(status) == status # "IN_PROGRESS"

CheckReturn(event, response) ==
    [scanId |-> event.scanId, scanName |-> event.scanName,
     sbomUrl |-> event.sbomUrl, status |-> response.status,
     isDone |-> IsDone(response.status)]

\* variant: a branch for a failed scan, leading to a Fail state
IsScanComplete_FailedBranch(data) ==
    IF data.isDone = TRUE
    THEN (IF data.status = "FAILED" THEN "ScanFailed" ELSE "GetScanResults")
    ELSE "WaitForScanCompletion"

\* variant: the otherwise branch polls again without waiting
IsScanComplete_NoWait(data) ==
    IF data.isDone = TRUE THEN "GetScanResults" ELSE "CheckScanStatus"

\* sfn.Choice "IsScanComplete": the state that follows CheckScanStatus
IsScanComplete(data) ==
    IF data.isDone = TRUE THEN "GetScanResults" ELSE "WaitForScanCompletion"

----------------------------------------------------------------------------
(* GetScanResultsLambda.handler *)

InitialSeverityCounts == [s \in Severities |-> 0]

\* variant: the default of the analysis script, finding.get('severity', 'UNKNOWN')
SeverityOf_Unknown(finding) ==
    IF "severity" \in DOMAIN finding THEN finding.severity ELSE "UNKNOWN"

\* finding.get('severity', 'INFORMATIONAL')
SeverityOf(finding) ==
    IF "severity" \in DOMAIN finding THEN finding.severity ELSE "INFORMATIONAL"

\* variant: a severity that is not yet a key is not counted
CountOne_KnownOnly(severity_counts, severity) ==
    [k \in DOMAIN severity_counts |->
        IF k = severity THEN severity_counts[k] + 1 ELSE severity_counts[k]]

\* severity_counts[severity] = severity_counts.get(severity, 0) + 1
CountOne(severity_counts, severity) ==
    [k \in DOMAIN severity_counts \cup {severity} |->
        IF k = severity
        THEN (IF severity \in DOMAIN severity_counts
              THEN severity_counts[severity] ELSE 0) + 1
        ELSE severity_counts[k]]

RECURSIVE CountLoop(_, _, _)
\* for finding in findings_response.get('findings', []): ...
CountLoop(findings, i, severity_counts) ==
    IF i > Len(findings) THEN severity_counts
    ELSE CountLoop(findings, i + 1,
                   CountOne(severity_counts, SeverityOf(findings[i])))

SeverityCounts(findings_response) ==
    CountLoop(IF "findings" \in DOMAIN findings_response
              THEN findings_response.findings ELSE <<>>,
              1, InitialSeverityCounts)

RECURSIVE SumOver(_, _)
SumOver(f, keys) ==
    IF keys = {} THEN 0
    ELSE LET k == CHOOSE x \in keys : TRUE IN f[k] + SumOver(f, keys \ {k})

\* sum(severity_counts.values())
SumValues(severity_counts) == SumOver(severity_counts, DOMAIN severity_counts)

\* datetime.isoformat()
IsoFormat(dt) == <<"iso", dt[2]>>

CompletedAt(scan_response) ==
    IF "completedAt" \in DOMAIN scan_response
    THEN IsoFormat(scan_response.completedAt) ELSE None

Summary(event, scan_response, findings_response) ==
    LET severity_counts == SeverityCounts(findings_response) IN
    [scanId |-> event.scanId,
     scanName |-> event.scanName,
     status |-> scan_response.status,
     completedAt |-> CompletedAt(scan_response),
     findingCounts |-> severity_counts,
     totalFindings |-> SumValues(severity_counts),
     sbomUrl |-> event.sbomUrl]

\* json.dumps(value, default=str) of a None, a string or a datetime
JsonValue(v) ==
    IF v = None THEN <<"null">>
    ELSE IF v[1] = "datetime" THEN <<"str", v[2]>>
    ELSE v

\* json.loads of what JsonValue wrote
JsonParse(v) == IF v = <<"null">> THEN None ELSE v

\* json.dumps(scan_response, default=str)
DumpScanResponse(scan_response) ==
    IF "completedAt" \in DOMAIN scan_response
    THEN [scan_response EXCEPT !.completedAt = JsonValue(@)]
    ELSE scan_response

\* json.dumps(findings_response, default=str)
DumpFindings(findings_response) == findings_response

\* json.dumps(summary, default=str)
DumpSummary(summary) == [summary EXCEPT !.completedAt = JsonValue(@)]

\* json.loads of a stored summary
LoadSummary(body) == [body EXCEPT !.completedAt = JsonParse(@)]

\* variant: every key is under the first scan's identifier
ArtifactKey_FirstScan(scan_id, name) == s_scans \o ScanIdOf(1) \o s_slash \o name

\* variant: the key leaves the scan identifier out
ArtifactKey_NoId(scan_id, name) == s_scans \o name

\* f"scans/{scan_id}/<name>"
ArtifactKey(scan_id, name) == s_scans \o scan_id \o s_slash \o name

\* s3_client.put_object(Bucket=results_bucket, Key=key, Body=body)
PutObject(s, key, body) ==
    [k \in DOMAIN s \cup {key} |-> IF k = key THEN body ELSE s[k]]

----------------------------------------------------------------------------
(* Initial values of the dispatcher's and the tools' records *)

\* ListSbomsLambda has not run; the SBOM bucket holds the given keys
NoTicks(objects) ==
    [objects |-> objects, ticks |-> 0, started |-> <<>>, attempts |-> <<>>,
     listed |-> <<>>, raised |-> FALSE]

\* GetScanResultsLambda has run at most once
NoRerun ==
    [runs |-> 0, store |-> [k \in {} |-> None], output |-> <<>>,
     timestamp |-> <<>>]

\* no reporting tool has run
NoReport ==
    [tool |-> "none", source |-> "", runs |-> 0, max_scans |-> 0,
     findings |-> <<>>, reads |-> <<>>, severities |-> <<>>, exit |-> -1,
     written |-> {},
     output_dir |-> FALSE, before |-> <<>>]

----------------------------------------------------------------------------
(* SbomScanStateMachine: one execution *)

\* sfn_client.start_execution(input=json.dumps(input)): the new execution
NewExecution(input) ==
    [input |-> input, status |-> "RUNNING", state |-> "InitiateSbomScan",
     data |-> input, clock |-> 0, trace |-> <<"InitiateSbomScan">>,
     calls |-> <<>>, output |-> <<>>, lam |-> [pc |-> "idle"]]

\* one call of a Lambda handler to the Scan Service or to the bucket
Call(op, task, scanId, status, key) ==
    [op |-> op, task |-> task, scanId |-> scanId, status |-> status, key |-> key]

Execs == 1..Len(executions)

\* the workflow engine may run the task of execution e
Runnable(e, state) ==
    /\ executions[e].status = "RUNNING"
    /\ executions[e].state = state
    /\ executions[e].clock < ExecTimeout

\* variant: the task that raised is run again
FailExecution_Retry(e, call) ==
    executions' = [executions EXCEPT ![e].calls = Append(@, call)]

\* a task raised: the execution fails in the state it is in
FailExecution(e, call) ==
    executions' = [executions EXCEPT ![e].status = "FAILED",
                                     ![e].calls = Append(@, call)]

\* task InitiateSbomScan: InitiateSbomScanLambda.handler returns or raises
InitiateSbomScan(e) ==
    /\ Runnable(e, "InitiateSbomScan")
    /\ LET event == executions[e].data
           s3_url == S3Url(InitiateBucket(event), event.key)
       IN \/ \E scan_name \in ScanNames :
                LET scan == NewScan(Len(scans) + 1, scan_name,
                                    InitiateFormat(event), s3_url)
                    out == InitiateReturn(scan, scan_name, s3_url)
                IN /\ scans' = Append(scans, scan)
                   /\ executions' = [executions EXCEPT
                        ![e].data = out,
                        ![e].state = "CheckScanStatus",
                        ![e].trace = Append(@, "CheckScanStatus"),
                        ![e].calls = Append(@, Call("create_sbom_scan",
                            "InitiateSbomScan", scan.sbomScanId, "IN_PROGRESS", <<>>))]
          \/ /\ FailExecution(e, Call("create_sbom_scan", "InitiateSbomScan",
                                      <<>>, "error", <<>>))
             /\ UNCHANGED scans
    /\ UNCHANGED <<store, trigger, probe, periodic, rerun, report>>

\* task CheckScanStatus and choice IsScanComplete
CheckScanStatus(e) ==
    /\ Runnable(e, "CheckScanStatus")
    /\ LET event == executions[e].data IN
       \/ /\ ScanKnown(event.scanId)
          /\ LET out == CheckReturn(event, GetSbomScanResponse(ScanOf(event.scanId)))
                 next == IsScanComplete(out)
             IN executions' = [executions EXCEPT
                    ![e].data = out,
                    ![e].state = next,
                    ![e].trace = Append(@, next),
                    ![e].calls = Append(@, Call("get_sbom_scan",
                        "CheckScanStatus", event.scanId, out.status, <<>>))]
       \/ FailExecution(e, Call("get_sbom_scan", "CheckScanStatus",
                                event.scanId, "error", <<>>))
    /\ UNCHANGED <<scans, store, trigger, probe, periodic, rerun, report>>

\* state WaitForScanCompletion: 30 seconds pass, then CheckScanStatus again
WaitForScanCompletion(e) ==
    /\ Runnable(e, "WaitForScanCompletion")
    /\ executions' = [executions EXCEPT
            ![e].clock = @ + 1,
            ![e].state = "CheckScanStatus",
            ![e].trace = Append(@, "CheckScanStatus")]
    /\ UNCHANGED <<scans, store, trigger, probe, periodic, rerun, report>>

\* variant: a state machine without a timeout
ExecutionTimeout_Never(e) ==
    /\ FALSE
    /\ UNCHANGED vars

\* StateMachine timeout=Duration.hours(2): the engine ends the execution
ExecutionTimeout(e) ==
    /\ executions[e].status = "RUNNING"
    /\ executions[e].clock >= ExecTimeout
    /\ executions' = [executions EXCEPT ![e].status = "TIMED_OUT"]
    /\ UNCHANGED <<scans, store, trigger, probe, periodic, rerun, report>>

\* datetime.now().strftime('%Y%m%d%H%M%S') of an invocation made at time t
Now(t) == <<"now", t>>

\* GetScanResultsLambda.handler up to the summary (no write yet)
GetScanResults_Query(e) ==
    /\ Runnable(e, "GetScanResults")
    /\ executions[e].lam.pc = "idle"
    /\ LET event == executions[e].data IN
       \/ /\ ScanKnown(event.scanId)
          /\ LET scan_response == GetSbomScanResponse(ScanOf(event.scanId))
                 findings_response == ListFindingsResponse(event.scanId)
             IN executions' = [executions EXCEPT
                    ![e].lam = [pc |-> "put_details",
                                scan_id |-> event.scanId,
                                scan_response |-> scan_response,
                                findings_response |-> findings_response,
                                summary |-> Summary(event, scan_response,
                                                    findings_response),
                                timestamp |-> Now(executions[e].clock)],
                    ![e].calls = @ \o
                        <<Call("get_sbom_scan", "GetScanResults", event.scanId,
                               scan_response.status, <<>>),
                          Call("list_findings", "GetScanResults", event.scanId,
                               "", <<>>)>>]
       \/ executions' = [executions EXCEPT
               ![e].status = "FAILED",
               ![e].lam = [pc |-> "raised"],
               ![e].calls = Append(@, Call("get_sbom_scan", "GetScanResults",
                                           event.scanId, "error", <<>>))]
    /\ UNCHANGED <<scans, store, trigger, probe, periodic, rerun, report>>

\* the handler is past the queries and has not returned or raised
InHandler(e) ==
    executions[e].lam.pc \in {"put_details", "put_findings", "put_summary"}

\* variant: the summary is written over findings.json
PutKey_SummaryOverFindings(lam) ==
    CASE lam.pc = "put_details" -> ArtifactKey(lam.scan_id, s_scan_details)
      [] lam.pc = "put_findings" -> ArtifactKey(lam.scan_id, s_findings)
      [] lam.pc = "put_summary" -> ArtifactKey(lam.scan_id, s_findings)

\* variant: the summary is the first of the three writes
PutKey_SummaryFirst(lam) ==
    CASE lam.pc = "put_details" -> ArtifactKey(lam.scan_id, s_summary)
      [] lam.pc = "put_findings" -> ArtifactKey(lam.scan_id, s_scan_details)
      [] lam.pc = "put_summary" -> ArtifactKey(lam.scan_id, s_findings)

\* what the three put_object calls write, in the order of the code
PutKey(lam) ==
    CASE lam.pc = "put_details" -> ArtifactKey(lam.scan_id, s_scan_details)
      [] lam.pc = "put_findings" -> ArtifactKey(lam.scan_id, s_findings)
      [] lam.pc = "put_summary" -> ArtifactKey(lam.scan_id, s_summary)

\* variant: the timestamp the handler computes is written into the summary
PutBody_Stamped(lam) ==
    CASE lam.pc = "put_details" -> DumpScanResponse(lam.scan_response)
      [] lam.pc = "put_findings" -> DumpFindings(lam.findings_response)
      [] lam.pc = "put_summary" ->
            [k \in DOMAIN lam.summary \cup {"generatedAt"} |->
                IF k = "generatedAt" THEN lam.timestamp
                ELSE DumpSummary(lam.summary)[k]]

\* the three bodies, json.dumps(..., default=str)
PutBody(lam) ==
    CASE lam.pc = "put_details" -> DumpScanResponse(lam.scan_response)
      [] lam.pc = "put_findings" -> DumpFindings(lam.findings_response)
      [] lam.pc = "put_summary" -> DumpSummary(lam.summary)

NextPc(pc) ==
    CASE pc = "put_details" -> "put_findings"
      [] pc = "put_findings" -> "put_summary"
      [] pc = "put_summary" -> "returned"

\* the next put_object of GetScanResultsLambda.handler; after the third one
\* the handler returns the summary, which a running execution takes as its
\* result
GetScanResults_Put(e) ==
    /\ InHandler(e)
    /\ LET lam == executions[e].lam
           running == executions[e].status = "RUNNING"
           last == lam.pc = "put_summary"
       IN /\ store' = PutObject(store, PutKey(lam), PutBody(lam))
          /\ executions' = [executions EXCEPT
                ![e].lam.pc = NextPc(lam.pc),
                ![e].calls = Append(@, Call("put_object", "GetScanResults",
                                            lam.scan_id, "", PutKey(lam))),
                ![e].status = IF last /\ running THEN "SUCCEEDED" ELSE @,
                ![e].output = IF last /\ running THEN <<lam.summary>> ELSE @]
    /\ UNCHANGED <<scans, trigger, probe, periodic, rerun, report>>

\* a put_object raises, or the Lambda is cut off: nothing more is written
GetScanResults_Raise(e) ==
    /\ InHandler(e)
    /\ executions' = [executions EXCEPT
            ![e].lam.pc = "raised",
            ![e].status = IF @ = "RUNNING" THEN "FAILED" ELSE @]
    /\ UNCHANGED <<scans, store, trigger, probe, periodic, rerun, report>>

\* GetScanResultsLambda.handler is invoked once more with the event of its
\* first invocation, after that one has returned
GetScanResults_Reinvoke(e) ==
    /\ e \in Execs
    /\ executions[e].lam.pc = "returned"
    /\ rerun.runs < 1
    /\ LET event == executions[e].data
           first == executions[e].lam
           scan_response == GetSbomScanResponse(ScanOf(event.scanId))
           findings_response == ListFindingsResponse(event.scanId)
       IN /\ rerun' = [runs |-> rerun.runs + 1, store |-> store,
                       output |-> <<first.summary>>,
                       timestamp |-> first.timestamp]
          /\ executions' = [executions EXCEPT
                ![e].lam = [pc |-> "put_details",
                            scan_id |-> event.scanId,
                            scan_response |-> scan_response,
                            findings_response |-> findings_response,
                            summary |-> Summary(event, scan_response,
                                                findings_response),
                            timestamp |-> Now(executions[e].clock + 1)],
                ![e].calls = @ \o
                    <<Call("get_sbom_scan", "GetScanResults", event.scanId,
                           scan_response.status, <<>>),
                      Call("list_findings", "GetScanResults", event.scanId,
                           "", <<>>)>>]
    /\ UNCHANGED <<scans, store, trigger, probe, periodic, report>>

\* the Scan Service finishes scan i
ScanCompletes(i) ==
    /\ scans[i].status = "IN_PROGRESS"
    /\ \E r \in ScanResults :
            scans' = [scans EXCEPT ![i].status = r.status,
                                   ![i].findings = r.findings,
                                   ![i].hasCompletedAt = r.hasCompletedAt]
    /\ UNCHANGED <<executions, store, trigger, probe, periodic, rerun, report>>

----------------------------------------------------------------------------
(* TriggerSbomScanLambda.handler *)

\* one record of an S3 notification event
Record(bucket, key) ==
    [s3 |-> [bucket |-> [name |-> bucket], object |-> [key |-> key]]]

Records == {Record(SbomBucket, key) : key \in ObjectKeys}

Batches == UNION {[1..n -> Records] : n \in 0..MaxBatch}

\* sbom_format from the file extension
SbomFormat(key) ==
    IF EndsWith(key, s_json) THEN "CYCLONEDX_1_4"
    ELSE IF EndsWith(key, s_xml) THEN "CYCLONEDX_1_4"
    ELSE "CYCLONEDX_1_4"

\* variant: the prefix is tested without its slash
IsSbomKey_NoSlash(key) == StartsWith(key, <<"s","b","o","m","s">>)

\* if not key.startswith('sboms/'): continue
IsSbomKey(key) == StartsWith(key, s_sboms)

\* the input of start_execution for one record
ScanRequest(bucket, key) ==
    [bucket |-> bucket, key |-> key, format |-> SbomFormat(key)]

RECURSIVE TriggerLoop(_, _, _, _)
\* for record in event['Records']: the executions started, in order; the
\* start_execution call made for record failAt raises (0: no call raises)
TriggerLoop(records, i, inputs, failAt) ==
    IF i > Len(records) THEN [inputs |-> inputs, raised |-> FALSE]
    ELSE LET bucket == records[i].s3.bucket.name
             key == records[i].s3.object.key
         IN IF ~IsSbomKey(key)
            THEN TriggerLoop(records, i + 1, inputs, failAt)
            ELSE IF failAt = i
            THEN [inputs |-> inputs, raised |-> TRUE]
            ELSE TriggerLoop(records, i + 1,
                             Append(inputs, ScanRequest(bucket, key)), failAt)

\* one invocation of the handler on a batch
TriggerSbomScan ==
    \E records \in Batches, failAt \in 0..MaxBatch :
        LET r == TriggerLoop(records, 1, <<>>, failAt)
            n == Len(executions)
        IN /\ failAt <= Len(records)
           /\ n + Len(r.inputs) <= MaxExecs
           /\ executions' = executions \o
                [j \in 1..Len(r.inputs) |-> NewExecution(r.inputs[j])]
           /\ trigger' = [records |-> records,
                          started |-> [j \in 1..Len(r.inputs) |-> n + j],
                          raised |-> r.raised]
           /\ UNCHANGED <<scans, store, probe, periodic, rerun, report>>

\* sfn_client.start_execution for one object under sboms/, as the
\* dispatchers call it
StartExecution ==
    /\ Len(executions) < MaxExecs
    /\ \E key \in ObjectKeys :
        /\ IsSbomKey(key)
        /\ executions' = Append(executions,
                                NewExecution(ScanRequest(SbomBucket, key)))
    /\ UNCHANGED <<scans, store, trigger, probe, periodic, rerun, report>>

----------------------------------------------------------------------------
(* ListSbomsLambda.handler *)

\* the characters of the keys, in the byte order S3 lists keys by
Chars == <<"-", ".", "/", "1", "2", "3", "4", "5", "6", "7", "8", "9",
           "a", "b", "c", "d", "e", "f", "g", "h", "i", "j", "k", "l", "m",
           "n", "o", "p", "q", "r", "s", "t", "u", "v", "w", "x", "y", "z">>

Ord(c) == CHOOSE i \in 1..Len(Chars) : Chars[i] = c

RECURSIVE KeyLess(_, _)
\* key a is listed before key b
KeyLess(a, b) ==
    IF a = <<>> THEN b # <<>>
    ELSE IF b = <<>> THEN FALSE
    ELSE IF Head(a) = Head(b) THEN KeyLess(Tail(a), Tail(b))
    ELSE Ord(Head(a)) < Ord(Head(b))

\* list_objects_v2(Bucket=sbom_bucket, Prefix='sboms/'): the matching keys
\* of the bucket, in key order
Listing(objects) ==
    LET keys == {k \in objects : StartsWith(k, s_sboms)}
        rank(k) == Cardinality({j \in keys : KeyLess(j, k)}) + 1
    IN [i \in 1..Cardinality(keys) |-> CHOOSE k \in keys : rank(k) = i]

\* variant: only the first page of the listing is read
Paginate_FirstPage(listing) ==
    IF listing = <<>> THEN <<>>
    ELSE <<SubSeq(listing, 1, IF Len(listing) < PageSize THEN Len(listing)
                              ELSE PageSize)>>

\* paginator.paginate: the listing cut into pages of at most PageSize keys
Paginate(listing) ==
    LET n == (Len(listing) + PageSize - 1) \div PageSize
    IN [p \in 1..n |->
            SubSeq(listing, (p - 1) * PageSize + 1,
                   IF p * PageSize < Len(listing) THEN p * PageSize
                   ELSE Len(listing))]

RECURSIVE ListSbomsLoop(_, _, _, _, _, _)
\* for page in pages: for obj in page.get('Contents', []): the keys
\* start_execution was called for and the inputs of the executions started,
\* in order; the failAt-th start_execution call raises (0: no call raises)
ListSbomsLoop(pages, p, i, inputs, attempts, failAt) ==
    IF p > Len(pages)
    THEN [inputs |-> inputs, attempts |-> attempts, raised |-> FALSE]
    ELSE IF i > Len(pages[p])
    THEN ListSbomsLoop(pages, p + 1, 1, inputs, attempts, failAt)
    ELSE LET key == pages[p][i] IN
         IF failAt = Len(attempts) + 1
         THEN [inputs |-> inputs, attempts |-> Append(attempts, key),
               raised |-> TRUE]
         ELSE ListSbomsLoop(pages, p, i + 1,
                            Append(inputs, ScanRequest(SbomBucket, key)),
                            Append(attempts, key), failAt)

\* one tick of DailySbomScanRule: one invocation of the handler
ListSboms ==
    /\ periodic.ticks < MaxTicks
    /\ \E failAt \in 0..Cardinality(periodic.objects) :
        LET listing == Listing(periodic.objects)
            r == ListSbomsLoop(Paginate(listing), 1, 1, <<>>, <<>>, failAt)
            n == Len(executions)
        IN /\ failAt <= Len(listing)
           /\ executions' = executions \o
                [j \in 1..Len(r.inputs) |-> NewExecution(r.inputs[j])]
           /\ periodic' = [periodic EXCEPT
                !.ticks = @ + 1,
                !.started = @ \o [j \in 1..Len(r.inputs) |-> n + j],
                !.listed = listing,
                !.attempts = r.attempts,
                !.raised = @ \/ r.raised]
    /\ UNCHANGED <<scans, store, trigger, probe, rerun, report>>

----------------------------------------------------------------------------
(* aws-inspector-dashboard.py *)

\* variant: an object is gone once it has been read
AfterRead_Consume(s, key) == [k \in DOMAIN s \ {key} |-> s[k]]

\* s3_client.list_objects_v2 and get_object leave the bucket as it is
AfterRead(s, key) == s

RECURSIVE SlashAfter(_, _)
\* position of the first '/' of key at or after position i (0: none)
SlashAfter(key, i) ==
    IF i > Len(key) THEN 0
    ELSE IF key[i] = "/" THEN i
    ELSE SlashAfter(key, i + 1)

\* Prefix='scans/', Delimiter='/': the CommonPrefixes, in key order
CommonPrefixes(s) ==
    LET keys == {k \in DOMAIN s : StartsWith(k, s_scans)
                                  /\ SlashAfter(k, Len(s_scans) + 1) > 0}
        dirs == {SubSeq(k, 1, SlashAfter(k, Len(s_scans) + 1)) : k \in keys}
        rank(d) == Cardinality({j \in dirs : KeyLess(j, d)}) + 1
    IN [i \in 1..Cardinality(dirs) |-> CHOOSE d \in dirs : rank(d) = i]

RECURSIVE Flatten(_)
\* for page in pages: for prefix in page.get('CommonPrefixes', []): append
Flatten(pages) ==
    IF pages = <<>> THEN <<>> ELSE Head(pages) \o Flatten(Tail(pages))

RECURSIVE InsertDesc(_, _)
InsertDesc(sorted, d) ==
    IF sorted = <<>> THEN <<d>>
    ELSE IF KeyLess(Head(sorted), d) THEN <<d>> \o sorted
    ELSE <<Head(sorted)>> \o InsertDesc(Tail(sorted), d)

RECURSIVE SortReverse(_)
\* variant: the list is left in listing order, oldest first
SortReverse_Unsorted(scan_dirs) == scan_dirs

\* scan_dirs.sort(reverse=True)
SortReverse(scan_dirs) ==
    IF scan_dirs = <<>> THEN <<>>
    ELSE InsertDesc(SortReverse(Tail(scan_dirs)), Head(scan_dirs))

\* scan_dirs[:max_scans]
SliceTo(scan_dirs, max_scans) ==
    LET stop == IF max_scans < 0 THEN Len(scan_dirs) + max_scans ELSE max_scans
        n == IF stop < 0 THEN 0
             ELSE IF stop > Len(scan_dirs) THEN Len(scan_dirs) ELSE stop
    IN SubSeq(scan_dirs, 1, n)

\* the three assignments made to a finding before it is appended
Annotate(finding, summary_data) ==
    [k \in DOMAIN finding \cup {"scanId", "scanName", "completedAt"} |->
        CASE k = "scanId" -> summary_data.scanId
          [] k = "scanName" -> summary_data.scanName
          [] k = "completedAt" -> summary_data.completedAt
          [] OTHER -> finding[k]]

\* variant: the findings are appended as soon as findings.json is loaded,
\* before summary.json is asked for
ReadScan_AppendEarly(s, scan_dir) ==
    IF scan_dir \o s_findings \notin DOMAIN s
    THEN [raised |-> TRUE, findings |-> <<>>,
          reads |-> <<scan_dir \o s_findings>>]
    ELSE LET findings_data == s[scan_dir \o s_findings]
             findings == IF "findings" \in DOMAIN findings_data
                         THEN findings_data.findings ELSE <<>>
         IN IF scan_dir \o s_summary \notin DOMAIN s
            THEN [raised |-> TRUE, findings |-> findings,
                  reads |-> <<scan_dir \o s_findings, scan_dir \o s_summary>>]
            ELSE [raised |-> FALSE,
                  findings |-> [i \in 1..Len(findings) |->
                       Annotate(findings[i],
                                LoadSummary(s[scan_dir \o s_summary]))],
                  reads |-> <<scan_dir \o s_findings, scan_dir \o s_summary>>]

\* the body of the try block for one scan_dir: the keys get_object was
\* called with and the findings appended; a get_object for a missing key
\* raises and ends the block
ReadScan(s, scan_dir) ==
    IF scan_dir \o s_findings \notin DOMAIN s
    THEN [raised |-> TRUE, findings |-> <<>>,
          reads |-> <<scan_dir \o s_findings>>]
    ELSE IF scan_dir \o s_summary \notin DOMAIN s
    THEN [raised |-> TRUE, findings |-> <<>>,
          reads |-> <<scan_dir \o s_findings, scan_dir \o s_summary>>]
    ELSE LET findings_data == s[scan_dir \o s_findings]
             summary_data == LoadSummary(s[scan_dir \o s_summary])
             findings == IF "findings" \in DOMAIN findings_data
                         THEN findings_data.findings ELSE <<>>
         IN [raised |-> FALSE,
             findings |-> [i \in 1..Len(findings) |->
                              Annotate(findings[i], summary_data)],
             reads |-> <<scan_dir \o s_findings, scan_dir \o s_summary>>]

RECURSIVE ReadScans(_, _, _, _, _)
\* for scan_dir in scan_dirs: try ... except Exception: print
ReadScans(s, scan_dirs, i, all_findings, reads) ==
    IF i > Len(scan_dirs)
    THEN [findings |-> all_findings, store |-> s, reads |-> reads]
    ELSE ReadScans(AfterRead(AfterRead(s, scan_dirs[i] \o s_findings),
                             scan_dirs[i] \o s_summary),
                   scan_dirs, i + 1,
                   all_findings \o ReadScan(s, scan_dirs[i]).findings,
                   reads \o ReadScan(s, scan_dirs[i]).reads)

\* get_scan_results(bucket, region, max_scans)
GetScanResults(s, max_scans) ==
    LET listed == Flatten(Paginate(CommonPrefixes(s)))
        scan_dirs == SliceTo(SortReverse(listed), max_scans)
    IN ReadScans(AfterRead(s, s_scans), scan_dirs, 1, <<>>, <<>>)

\* finding.get('severity', 'INFORMATIONAL') in generate_dashboard
DashboardSeverityOf(finding) ==
    IF "severity" \in DOMAIN finding THEN finding.severity ELSE "INFORMATIONAL"

\* main: the exit status
MainExit(findings) == IF findings = <<>> THEN 1 ELSE 0

\* --max-scans values given on the command line (default: 10)
MaxScansValues == {-1, 0, 1, 10}

\* one run of the dashboard generator
DashboardRun ==
    /\ report.runs < MaxRuns
    /\ \E max_scans \in MaxScansValues :
        LET r == GetScanResults(store, max_scans)
            exit == MainExit(r.findings)
        IN /\ store' = r.store
           /\ report' = [tool |-> "dashboard",
                         source |-> "bucket",
                         output_dir |-> FALSE,
                         runs |-> report.runs + 1,
                         max_scans |-> max_scans,
                         findings |-> r.findings,
                         reads |-> r.reads,
                         severities |-> [i \in 1..Len(r.findings) |->
                                            DashboardSeverityOf(r.findings[i])],
                         exit |-> exit,
                         written |-> IF exit = 0
                                     THEN {"inspector-dashboard.html"} ELSE {},
                         before |-> <<store>>]
    /\ UNCHANGED <<executions, scans, trigger, probe, periodic, rerun>>

----------------------------------------------------------------------------
(* sbom-analyzer.py *)

AnalyzerSources == {"none", "input", "s3", "scan-id"}

\* a key of the results bucket that holds no object
MissingKey == ArtifactKey(ScanIdOf(9), s_findings)

\* what --input, --s3-key or --scan-id may name, by source
AnalyzerArgs(source, s) ==
    CASE source = "input" -> {s[k] : k \in DOMAIN s}
      [] source = "s3" -> DOMAIN s \cup {MissingKey}
      [] source = "scan-id" -> {ScanIdOf(n) : n \in 1..3}
      [] OTHER -> {<<>>}

\* get_findings_data(): the data loaded, or the exit status the script
\* ends with there (no source: sys.exit(1); get_object raises: status 1)
GetFindingsData(source, arg, s) ==
    CASE source = "input" -> [exit |-> -1, data |-> arg]
      [] source = "s3" ->
            IF arg \in DOMAIN s THEN [exit |-> -1, data |-> s[arg]]
            ELSE [exit |-> 1, data |-> <<>>]
      [] source = "scan-id" ->
            [exit |-> -1,
             data |-> [findings |-> ListFindingsPages(FindingsOf(arg), 1)]]
      [] OTHER -> [exit |-> 1, data |-> <<>>]

\* if 'findings' not in data or not data['findings']
NoFindings(data) ==
    IF "findings" \in DOMAIN data THEN data.findings = <<>> ELSE TRUE

\* variant: the default of the other two components
AnalyzerSeverityOf_Informational(finding) ==
    IF "severity" \in DOMAIN finding THEN finding.severity ELSE "INFORMATIONAL"

\* finding.get('severity', 'UNKNOWN')
AnalyzerSeverityOf(finding) ==
    IF "severity" \in DOMAIN finding THEN finding.severity ELSE "UNKNOWN"

\* the files the script writes into the output directory
AnalyzerOutputs ==
    {"sbom_analysis_summary.md", "severity_distribution.png",
     "top_vulnerable_packages.png", "cvss_distribution.png",
     "fixable_vulnerabilities.png", "sbom_vulnerabilities.csv",
     "sbom_analysis_report.html"}

\* variant: the script ends with status 1 when the data holds no finding
AnalyzerExit_OneWhenEmpty(loaded) ==
    IF loaded.exit # -1 THEN loaded.exit
    ELSE IF NoFindings(loaded.data) THEN 1 ELSE 0

\* the exit status of the script
AnalyzerExit(loaded) ==
    IF loaded.exit # -1 THEN loaded.exit ELSE 0

\* one run of the analysis script
AnalyzerRun ==
    /\ report.runs < MaxRuns
    /\ \E source \in AnalyzerSources : \E arg \in AnalyzerArgs(source, store) :
        LET loaded == GetFindingsData(source, arg, store)
            empty == loaded.exit # -1 \/ NoFindings(loaded.data)
            findings == IF empty THEN <<>> ELSE loaded.data.findings
        IN /\ store' = IF source = "s3" THEN AfterRead(store, arg) ELSE store
           /\ report' = [tool |-> "analyzer",
                         source |-> source,
                         output_dir |-> TRUE,
                         runs |-> report.runs + 1,
                         max_scans |-> 0,
                         findings |-> findings,
                         reads |-> IF source = "s3" THEN <<arg>> ELSE <<>>,
                         severities |-> [i \in 1..Len(findings) |->
                                            AnalyzerSeverityOf(findings[i])],
                         exit |-> AnalyzerExit(loaded),
                         written |-> IF empty THEN {} ELSE AnalyzerOutputs,
                         before |-> <<store>>]
    /\ UNCHANGED <<executions, scans, trigger, probe, periodic, rerun>>

----------------------------------------------------------------------------
(* The severity count on its own *)

FindingCollections == UNION {[1..n -> FindingValues] : n \in 0..MaxFindings}

ProbeEvent == [scanId |-> ScanIdOf(1), scanName |-> "sbom-scan-t1-u1",
               sbomUrl |-> S3Url(SbomBucket, s_sboms)]

\* GetScanResultsLambda.handler builds the summary of probe.findings
Summarize ==
    /\ probe.out = <<>>
    /\ probe' = [probe EXCEPT !.out =
            <<Summary(ProbeEvent, [status |-> "SUCCEEDED"],
                      [findings |-> probe.findings])>>]
    /\ UNCHANGED <<executions, scans, store, trigger, periodic, rerun, report>>

----------------------------------------------------------------------------
(* Specifications *)

Init ==
    /\ executions = <<>>
    /\ scans = <<>>
    /\ store = [k \in {} |-> None]
    /\ trigger = [records |-> <<>>, started |-> <<>>, raised |-> FALSE]
    /\ probe = [findings |-> <<>>, out |-> <<>>]
    /\ periodic = NoTicks({})
    /\ rerun = NoRerun
    /\ report = NoReport

Next ==
    \/ StartExecution
    \/ \E e \in Execs : InitiateSbomScan(e)
    \/ \E e \in Execs : CheckScanStatus(e)
    \/ \E e \in Execs : WaitForScanCompletion(e)
    \/ \E e \in Execs : ExecutionTimeout(e)
    \/ \E e \in Execs : GetScanResults_Query(e)
    \/ \E e \in Execs : GetScanResults_Put(e)
    \/ \E e \in Execs : GetScanResults_Raise(e)
    \/ \E i \in 1..Len(scans) : ScanCompletes(i)

Spec == Init /\ [][Next]_vars

InitCount ==
    /\ executions = <<>>
    /\ scans = <<>>
    /\ store = [k \in {} |-> None]
    /\ trigger = [records |-> <<>>, started |-> <<>>, raised |-> FALSE]
    /\ \E findings \in FindingCollections :
            probe = [findings |-> findings, out |-> <<>>]
    /\ periodic = NoTicks({})
    /\ rerun = NoRerun
    /\ report = NoReport

NextCount == Summarize

NextTrigger == TriggerSbomScan

SpecTrigger == Init /\ [][NextTrigger]_vars

SpecCount == InitCount /\ [][NextCount]_vars

InitPeriodic ==
    /\ executions = <<>>
    /\ scans = <<>>
    /\ store = [k \in {} |-> None]
    /\ trigger = [records |-> <<>>, started |-> <<>>, raised |-> FALSE]
    /\ probe = [findings |-> <<>>, out |-> <<>>]
    /\ \E objects \in SUBSET ObjectKeys : periodic = NoTicks(objects)
    /\ rerun = NoRerun
    /\ report = NoReport

NextPeriodic ==
    \/ ListSboms
    \/ StartExecution

SpecPeriodic == InitPeriodic /\ [][NextPeriodic]_vars

\* scan i of the Scan Service, finished with result r
FinishedScan(i, r) ==
    [NewScan(i, "sbom-scan-t1-u1", "CYCLONEDX_1_4",
             S3Url(SbomBucket, s_sboms \o <<"a">> \o s_json))
        EXCEPT !.status = r.status, !.findings = r.findings,
               !.hasCompletedAt = r.hasCompletedAt]

\* what GetScanResultsLambda.handler holds for scan i before its first write
LamOf(i) ==
    LET scan == scans[i]
        event == CheckReturn(InitiateReturn(scan, scan.name, scan.sbomUrl),
                             GetSbomScanResponse(scan))
        scan_response == GetSbomScanResponse(scan)
        findings_response == ListFindingsResponse(scan.sbomScanId)
    IN [pc |-> "put_details", scan_id |-> scan.sbomScanId,
        scan_response |-> scan_response,
        findings_response |-> findings_response,
        summary |-> Summary(event, scan_response, findings_response),
        timestamp |-> Now(0)]

RECURSIVE Writes(_, _, _)
\* the results bucket after the first n put_object calls of the handler
Writes(s, lam, n) ==
    IF n = 0 THEN s
    ELSE Writes(PutObject(s, PutKey(lam), PutBody(lam)),
                [lam EXCEPT !.pc = NextPc(lam.pc)], n - 1)

\* two finished scans; for each, GetScanResultsLambda has made none, some or
\* all of its three writes
InitReport ==
    /\ executions = <<>>
    /\ \E r1, r2 \in ScanResults :
            scans = <<FinishedScan(1, r1), FinishedScan(2, r2)>>
    /\ \E n1, n2 \in 0..3 :
            store = Writes(Writes([k \in {} |-> None], LamOf(1), n1),
                           LamOf(2), n2)
    /\ trigger = [records |-> <<>>, started |-> <<>>, raised |-> FALSE]
    /\ probe = [findings |-> <<>>, out |-> <<>>]
    /\ periodic = NoTicks({})
    /\ rerun = NoRerun
    /\ report = NoReport

NextReport ==
    \/ DashboardRun
    \/ AnalyzerRun

SpecReport == InitReport /\ [][NextReport]_vars

----------------------------------------------------------------------------
(* Vocabulary of the properties *)

Ended(e) == executions[e].status \in {"SUCCEEDED", "FAILED", "TIMED_OUT"}

\* positions of the calls of execution e with operation op
CallsOf(e, op) ==
    {i \in 1..Len(executions[e].calls) : executions[e].calls[i].op = op}

\* positions of the status queries of the Polling stage that were answered
Polls(e) ==
    {i \in CallsOf(e, "get_sbom_scan") :
        /\ executions[e].calls[i].task = "CheckScanStatus"
        /\ executions[e].calls[i].status # "error"}

\* number of Waiting stages execution e has entered
Waits(e) ==
    Cardinality({i \in 1..Len(executions[e].trace) :
                    executions[e].trace[i] = "WaitForScanCompletion"})

\* execution e has a ScanHandle: its create-scan call returned
HasHandle(e) ==
    /\ Len(executions[e].calls) >= 1
    /\ executions[e].calls[1].op = "create_sbom_scan"
    /\ executions[e].calls[1].status # "error"

\* the scan identifier create-scan returned to execution e
HandleId(e) == executions[e].calls[1].scanId

\* scans/<id>/
Namespace(id) == <<"s","c","a","n","s","/">> \o id \o <<"/">>

\* the keys of the results store under scans/<id>/
KeysUnder(id) ==
    {k \in DOMAIN store :
        /\ Len(k) >= Len(Namespace(id))
        /\ SubSeq(k, 1, Len(Namespace(id))) = Namespace(id)}

\* the three artifact keys of the key layout
DetailsKey(id) == Namespace(id) \o
    <<"s","c","a","n","-","d","e","t","a","i","l","s",".","j","s","o","n">>
FindingsKey(id) == Namespace(id) \o <<"f","i","n","d","i","n","g","s",".","j","s","o","n">>
SummaryKey(id) == Namespace(id) \o <<"s","u","m","m","a","r","y",".","j","s","o","n">>

ThreeKeys(id) == {DetailsKey(id), FindingsKey(id), SummaryKey(id)}

----------------------------------------------------------------------------
(* C1 *)

\* C1: in every execution create-scan is called at most once, only by the
\* Submitted stage, and exactly once as soon as the execution is past that
\* stage; the scanId it returned is the scanId of every later query, of the
\* Finalizing queries, of every artifact key and of the returned summary, and
\* scanName and sbomUrl of the summary are the ones given at submission.
C1_OneStableHandle ==
    \A e \in Execs :
        LET x == executions[e] IN
        /\ Cardinality(CallsOf(e, "create_sbom_scan")) <= 1
        /\ \A i \in CallsOf(e, "create_sbom_scan") :
                i = 1 /\ x.calls[i].task = "InitiateSbomScan"
        /\ Len(x.trace) >= 2 =>
            /\ HasHandle(e)
            /\ x.data.scanId = HandleId(e)
            /\ \A i \in 2..Len(x.calls) :
                /\ x.calls[i].scanId = HandleId(e)
                /\ x.calls[i].op = "put_object" =>
                        x.calls[i].key \in ThreeKeys(HandleId(e))
            /\ x.data.scanName = ScanOf(HandleId(e)).name
            /\ x.data.sbomUrl = ScanOf(HandleId(e)).sbomUrl
        /\ x.output # <<>> =>
            /\ x.output[1].scanId = HandleId(e)
            /\ x.output[1].scanName = ScanOf(HandleId(e)).name
            /\ x.output[1].sbomUrl = ScanOf(HandleId(e)).sbomUrl
            /\ x.output[1].sbomUrl =
                    <<"s","3",":","/","/">> \o x.input.bucket \o <<"/">> \o x.input.key

\* C1 witness: the second scan's execution has polled twice, finalized and
\* returned a summary
C1_Witness ==
    \E e \in Execs :
        /\ executions[e].status = "SUCCEEDED"
        /\ HasHandle(e)
        /\ HandleId(e) = <<"i","d","2">>
        /\ Cardinality(Polls(e)) >= 2
        /\ executions[e].output # <<>>

----------------------------------------------------------------------------
(* C2 *)

StageOrder ==
    {<<"InitiateSbomScan", "CheckScanStatus">>,
     <<"CheckScanStatus", "WaitForScanCompletion">>,
     <<"WaitForScanCompletion", "CheckScanStatus">>,
     <<"CheckScanStatus", "GetScanResults">>}

\* C2: an execution starts in Submitted and every entry into a stage is one of
\* Submitted -> Polling, Polling -> Waiting, Waiting -> Polling and
\* Polling -> Finalizing, so nothing follows Finalizing; an execution is in
\* one stage at a time: every call is made by the stage the execution is in,
\* and the Finalizing handler runs only in Finalizing.
C2_StageOrder ==
    [][\A e \in 1..Len(executions') :
        IF e \in Execs
        THEN /\ executions'[e].state =
                    executions'[e].trace[Len(executions'[e].trace)]
             /\ \/ /\ executions'[e].trace = executions[e].trace
                   /\ executions'[e].state = executions[e].state
                \/ /\ executions'[e].trace =
                            Append(executions[e].trace, executions'[e].state)
                   /\ <<executions[e].state, executions'[e].state>> \in StageOrder
                   /\ executions[e].status = "RUNNING"
             /\ \A i \in (Len(executions[e].calls) + 1)..Len(executions'[e].calls) :
                    executions'[e].calls[i].task = executions[e].state
             /\ executions'[e].lam.pc # "idle" =>
                    executions'[e].state = "GetScanResults"
        ELSE /\ executions'[e].state = "InitiateSbomScan"
             /\ executions'[e].trace = <<"InitiateSbomScan">>
             /\ executions'[e].calls = <<>>
      ]_vars

\* C2 witness: an execution went through Submitted, Polling, Waiting,
\* Polling, Waiting, Polling, Finalizing
C2_Witness ==
    \E e \in Execs :
        executions[e].trace =
            <<"InitiateSbomScan", "CheckScanStatus", "WaitForScanCompletion",
              "CheckScanStatus", "WaitForScanCompletion", "CheckScanStatus",
              "GetScanResults">>

----------------------------------------------------------------------------
(* C3 *)

\* the answers of the Polling queries of execution e, in order
PolledStatuses(e) ==
    LET idx == Polls(e)
        nth(n) == CHOOSE i \in idx : Cardinality({j \in idx : j < i}) = n - 1
    IN [n \in 1..Cardinality(idx) |-> executions[e].calls[nth(n)].status]

\* C3: while an execution polls or waits every answer so far was IN_PROGRESS
\* and it has waited once per answer (the wait after the last answer is
\* counted when Waiting is entered); in Finalizing the answers are k
\* IN_PROGRESS and then one other status, after k+1 queries and k waits.
C3_PollsAndWaits ==
    \A e \in Execs :
        LET x == executions[e]
            p == PolledStatuses(e)
        IN /\ x.state \in {"CheckScanStatus", "WaitForScanCompletion"} =>
                /\ \A n \in 1..Len(p) : p[n] = "IN_PROGRESS"
                /\ Waits(e) = Len(p)
           /\ x.state = "GetScanResults" =>
                /\ Len(p) = Waits(e) + 1
                /\ \A n \in 1..(Len(p) - 1) : p[n] = "IN_PROGRESS"
                /\ p[Len(p)] # "IN_PROGRESS"
           /\ x.state = "InitiateSbomScan" => Len(p) = 0 /\ Waits(e) = 0

\* C3 witness: the answers IN_PROGRESS, IN_PROGRESS, SUCCEEDED led to
\* Finalizing after two waits
C3_Witness ==
    \E e \in Execs :
        /\ executions[e].state = "GetScanResults"
        /\ PolledStatuses(e) = <<"IN_PROGRESS", "IN_PROGRESS", "SUCCEEDED">>
        /\ Waits(e) = 2

----------------------------------------------------------------------------
(* C4 *)

\* number of findings of the collection whose severity is in the set sevs;
\* "absent" stands for a finding with no severity field
NumberWith(findings, sevs) ==
    Cardinality({i \in 1..Len(findings) :
        IF "severity" \in DOMAIN findings[i]
        THEN findings[i].severity \in sevs
        ELSE "absent" \in sevs})

RECURSIVE TotalOf(_)
\* the sum of the values of a findingCounts object
TotalOf(counts) ==
    IF DOMAIN counts = {} THEN 0
    ELSE LET k == CHOOSE x \in DOMAIN counts : TRUE
         IN counts[k] + TotalOf([j \in DOMAIN counts \ {k} |-> counts[j]])

\* C4: for every finding collection, findingCounts of CRITICAL, HIGH, MEDIUM
\* and LOW is the number of findings of that severity, findingCounts of
\* INFORMATIONAL is the number of findings that are INFORMATIONAL or have no
\* severity, and totalFindings is the sum of all findingCounts values.
C4_CountsBySeverity ==
    probe.out # <<>> =>
        LET summary == probe.out[1] IN
        /\ \A s \in {"CRITICAL", "HIGH", "MEDIUM", "LOW"} :
                summary.findingCounts[s] = NumberWith(probe.findings, {s})
        /\ summary.findingCounts["INFORMATIONAL"] =
                NumberWith(probe.findings, {"INFORMATIONAL", "absent"})
        /\ summary.totalFindings = TotalOf(summary.findingCounts)

\* C4 witness: 3 HIGH, 1 CRITICAL and 1 finding without severity are counted
\* as CRITICAL 1, HIGH 3, MEDIUM 0, LOW 0, INFORMATIONAL 1, total 5
C4_Witness ==
    /\ probe.out # <<>>
    /\ probe.findings = <<Finding("HIGH"), Finding("HIGH"), Finding("HIGH"),
                          Finding("CRITICAL"), [vulnerabilityId |-> "CVE"]>>
    /\ probe.out[1].findingCounts =
            [s \in {"CRITICAL", "HIGH", "MEDIUM", "LOW", "INFORMATIONAL"} |->
                CASE s = "CRITICAL" -> 1 [] s = "HIGH" -> 3
                  [] s = "INFORMATIONAL" -> 1 [] OTHER -> 0]
    /\ probe.out[1].totalFindings = 5

----------------------------------------------------------------------------
(* C5 *)

\* C5: once an execution has completed Finalizing successfully for scan id,
\* the keys of the results store under scans/<id>/ are exactly
\* scan-details.json, findings.json and summary.json, each written by that
\* execution, and the result of the execution is the summary stored under
\* scans/<id>/summary.json.
C5_ThreeArtifacts ==
    \A e \in Execs :
        executions[e].status = "SUCCEEDED" =>
            LET id == executions[e].output[1].scanId IN
            /\ KeysUnder(id) = ThreeKeys(id)
            /\ {executions[e].calls[i].key : i \in CallsOf(e, "put_object")}
                    = ThreeKeys(id)
            /\ Cardinality(CallsOf(e, "put_object")) = 3
            /\ LoadSummary(store[SummaryKey(id)]) = executions[e].output[1]

\* C5 witness: an execution has succeeded for a scan that reports a completion
\* time and a finding, and the three artifacts are in the store
C5_Witness ==
    \E e \in Execs :
        /\ executions[e].status = "SUCCEEDED"
        /\ executions[e].output[1].completedAt # None
        /\ executions[e].output[1].totalFindings = 1
        /\ ThreeKeys(executions[e].output[1].scanId) \subseteq DOMAIN store

----------------------------------------------------------------------------
(* C6 *)

\* C6 as claimed: findingCounts of every summary has exactly the five keys
\* CRITICAL, HIGH, MEDIUM, LOW and INFORMATIONAL, whatever the severities of
\* the findings.
C6_ExactlyFiveKeys ==
    probe.out # <<>> =>
        DOMAIN probe.out[1].findingCounts =
            {"CRITICAL", "HIGH", "MEDIUM", "LOW", "INFORMATIONAL"}

\* the severities that occur in a collection
SeveritiesIn(findings) ==
    {findings[i].severity :
        i \in {j \in 1..Len(findings) : "severity" \in DOMAIN findings[j]}}

\* C6 amended: the keys of findingCounts are the five severities and, in
\* addition, every other severity value that occurs in the collection; they
\* are exactly the five when every finding's severity is one of the five or
\* absent.
C6_FiveKeysAndOthers ==
    probe.out # <<>> =>
        DOMAIN probe.out[1].findingCounts =
            {"CRITICAL", "HIGH", "MEDIUM", "LOW", "INFORMATIONAL"}
                \cup SeveritiesIn(probe.findings)

\* C6 witness: a collection with an UNTRIAGED finding gives a summary whose
\* findingCounts has a sixth key
C6_Witness ==
    /\ probe.out # <<>>
    /\ "UNTRIAGED" \in SeveritiesIn(probe.findings)
    /\ Cardinality(DOMAIN probe.out[1].findingCounts) = 6
    /\ probe.out[1].findingCounts["UNTRIAGED"] >= 1

----------------------------------------------------------------------------
(* C7 *)

\* every answer execution e has got from the Scan Service so far
AllInProgress(e) ==
    \A i \in CallsOf(e, "get_sbom_scan") :
        executions[e].calls[i].status = "IN_PROGRESS"

\* C7: an execution in Submitted, Polling or Waiting has written nothing and
\* nothing is stored under its scan's keys; so an execution that the timeout
\* ends while its scan is still IN_PROGRESS has failed without a result and
\* leaves no summary.json and no other artifact under scans/<scanId>/.
C7_NoArtifactBeforeFinalizing ==
    \A e \in Execs :
        LET x == executions[e] IN
        /\ x.state \in {"InitiateSbomScan", "CheckScanStatus",
                        "WaitForScanCompletion"} =>
            /\ CallsOf(e, "put_object") = {}
            /\ HasHandle(e) => KeysUnder(HandleId(e)) = {}
        /\ (x.status = "TIMED_OUT" /\ AllInProgress(e)) =>
            /\ x.output = <<>>
            /\ x.state \in {"CheckScanStatus", "WaitForScanCompletion"}
            /\ KeysUnder(HandleId(e)) = {}
            /\ SummaryKey(HandleId(e)) \notin DOMAIN store

\* C7 witness: an execution timed out with every answer IN_PROGRESS while
\* another execution has stored its artifacts
C7_Witness ==
    \E e \in Execs :
        /\ executions[e].status = "TIMED_OUT"
        /\ Cardinality(Polls(e)) = ExecTimeout
        /\ AllInProgress(e)
        /\ DOMAIN store # {}

----------------------------------------------------------------------------
(* C9 *)

\* the keys execution e has written
KeysWritten(e) == {executions[e].calls[i].key : i \in CallsOf(e, "put_object")}

\* what execution e wrote under key k
Written(e, k) ==
    LET lam == executions[e].lam IN
    IF k = DetailsKey(lam.scan_id) THEN DumpScanResponse(lam.scan_response)
    ELSE IF k = FindingsKey(lam.scan_id) THEN DumpFindings(lam.findings_response)
    ELSE DumpSummary(lam.summary)

\* C9: two executions with distinct scan identifiers write disjoint sets of
\* keys, and in every interleaving each key an execution has written holds
\* what that execution wrote: the artifacts under a scan's keys are those of
\* its own execution.
C9_DisjointNamespaces ==
    \A e1 \in Execs :
        /\ \A k \in KeysWritten(e1) :
                /\ k \in DOMAIN store
                /\ k \in ThreeKeys(HandleId(e1))
                /\ store[k] = Written(e1, k)
        /\ \A e2 \in Execs :
                (e1 # e2 /\ HasHandle(e1) /\ HasHandle(e2)
                    /\ HandleId(e1) # HandleId(e2))
                => KeysWritten(e1) \cap KeysWritten(e2) = {}

\* C9 witness: two executions with distinct scan identifiers have both
\* written their three artifacts
C9_Witness ==
    \E e1, e2 \in Execs :
        /\ HasHandle(e1) /\ HasHandle(e2)
        /\ HandleId(e1) # HandleId(e2)
        /\ Cardinality(KeysWritten(e1)) = 3
        /\ Cardinality(KeysWritten(e2)) = 3
        /\ Cardinality(DOMAIN store) = 6

----------------------------------------------------------------------------
(* C8 *)

\* the workflow engine and the Lambda service go on with execution e
Step(e) ==
    /\ e \in Execs
    /\ \/ InitiateSbomScan(e)
       \/ CheckScanStatus(e)
       \/ WaitForScanCompletion(e)
       \/ ExecutionTimeout(e)
       \/ GetScanResults_Query(e)
       \/ GetScanResults_Put(e)
       \/ GetScanResults_Raise(e)

\* one execution, started for an object under sboms/
InitLive ==
    /\ \E key \in ObjectKeys :
        /\ IsSbomKey(key)
        /\ executions = <<NewExecution(ScanRequest(SbomBucket, key))>>
    /\ scans = <<>>
    /\ store = [k \in {} |-> None]
    /\ trigger = [records |-> <<>>, started |-> <<>>, raised |-> FALSE]
    /\ probe = [findings |-> <<>>, out |-> <<>>]
    /\ periodic = NoTicks({})
    /\ rerun = NoRerun
    /\ report = NoReport

NextLive ==
    \/ \E e \in Execs : InitiateSbomScan(e)
    \/ \E e \in Execs : CheckScanStatus(e)
    \/ \E e \in Execs : WaitForScanCompletion(e)
    \/ \E e \in Execs : ExecutionTimeout(e)
    \/ \E e \in Execs : GetScanResults_Query(e)
    \/ \E e \in Execs : GetScanResults_Put(e)
    \/ \E e \in Execs : GetScanResults_Raise(e)
    \/ \E i \in 1..Len(scans) : ScanCompletes(i)

\* the engine runs every state of a started execution, fires its timers and
\* enforces the execution timeout; the Scan Service need not ever finish
SpecLive == InitLive /\ [][NextLive]_vars /\ WF_vars(Step(1))

\* C8: every started execution eventually ends; an ended execution stays
\* ended the same way; it has a ScanSummary as its result exactly when it
\* succeeded, which takes a Polling answer other than IN_PROGRESS, and
\* otherwise it failed with no result.
C8_EveryExecutionEnds ==
    /\ \A e \in 1..MaxExecs : [](e \in Execs => <>(e \in Execs /\ Ended(e)))
    /\ [](\A e \in Execs :
            /\ (executions[e].output # <<>>) <=> (executions[e].status = "SUCCEEDED")
            /\ executions[e].status = "SUCCEEDED" =>
                    \E i \in Polls(e) : executions[e].calls[i].status # "IN_PROGRESS")
    /\ [][\A e \in Execs : Ended(e) =>
            /\ executions'[e].status = executions[e].status
            /\ executions'[e].output = executions[e].output]_vars

\* C8 witness: the loop of an execution whose scan never finished was ended
\* by the timeout
C8_Witness ==
    \E e \in Execs :
        /\ executions[e].status = "TIMED_OUT"
        /\ executions[e].clock = ExecTimeout
        /\ Waits(e) = ExecTimeout
        /\ ScanOf(HandleId(e)).status = "IN_PROGRESS"

----------------------------------------------------------------------------
(* C10 *)

\* the key of a record is under sboms/
UnderSboms(record) ==
    LET key == record.s3.object.key IN
    /\ Len(key) >= 6
    /\ SubSeq(key, 1, 6) = <<"s","b","o","m","s","/">>

\* the records of the last batch that are under sboms/, in order
SbomRecords == SelectSeq(trigger.records, UnderSboms)

\* C10: for every batch the handler has returned from, the executions it
\* started are as many as the records of the batch under sboms/, the j-th of
\* them got the ScanRequest {bucket, key, format} of the j-th such record,
\* and records outside the prefix started nothing, whatever their place in
\* the batch; the handler never starts more executions than there are such
\* records and touches neither the Scan Service nor the results store.
C10_OneExecutionPerSbomRecord ==
    /\ Len(trigger.started) <= Len(SbomRecords)
    /\ (~trigger.raised) => Len(trigger.started) = Len(SbomRecords)
    /\ \A j \in 1..Len(trigger.started) :
        LET x == executions[trigger.started[j]] IN
        /\ DOMAIN x.input = {"bucket", "key", "format"}
        /\ x.input.bucket = SbomRecords[j].s3.bucket.name
        /\ x.input.key = SbomRecords[j].s3.object.key
        /\ x.input.format = "CYCLONEDX_1_4"
        /\ x.status = "RUNNING" /\ x.state = "InitiateSbomScan"
    /\ \A j, k \in 1..Len(trigger.started) :
        j < k => trigger.started[j] < trigger.started[k]
    /\ scans = <<>>
    /\ DOMAIN store = {}

\* C10 witness: the handler returned from a batch whose first record is
\* reports/readme.txt and whose second record is under sboms/, having
\* started exactly one execution, for the second record
C10_Witness ==
    /\ ~trigger.raised
    /\ Len(trigger.records) = 2
    /\ trigger.records[1].s3.object.key =
        <<"r","e","p","o","r","t","s","/","r","e","a","d","m","e",".","t","x","t">>
    /\ UnderSboms(trigger.records[2])
    /\ Len(trigger.started) = 1
    /\ executions[trigger.started[1]].input.key = trigger.records[2].s3.object.key

----------------------------------------------------------------------------
(* C11 *)

\* the keys of the SBOM bucket under sboms/
PeriodicObjects ==
    {k \in periodic.objects :
        Len(k) >= 6 /\ SubSeq(k, 1, 6) = <<"s","b","o","m","s","/">>}

\* C11: over an unchanged bucket with N objects under sboms/, the periodic
\* path never has started more than t*N executions after t ticks, and when
\* no start call has failed it has started exactly t*N: every tick starts N
\* new executions, distinct from all earlier ones, one for each object, with
\* the ScanRequest {bucket, key, format} of that object, whatever executions
\* exist already.
C11_EveryTickStartsAll ==
    LET N == Cardinality(PeriodicObjects)
        started == periodic.started
    IN /\ Len(started) <= periodic.ticks * N
       /\ \A j, k \in 1..Len(started) : j < k => started[j] < started[k]
       /\ \A j \in 1..Len(started) : started[j] \in Execs
       /\ (~periodic.raised) =>
            /\ Len(started) = periodic.ticks * N
            /\ \A t \in 1..periodic.ticks :
                LET ofTick == {started[j] : j \in ((t - 1) * N + 1)..(t * N)}
                IN \A k \in PeriodicObjects :
                    Cardinality({e \in ofTick :
                        executions[e].input =
                            [bucket |-> SbomBucket, key |-> k,
                             format |-> "CYCLONEDX_1_4"]}) = 1

\* C11 witness: two ticks over two objects under sboms/ (two listing pages),
\* with an execution of the event path started before them, have started
\* four executions
C11_Witness ==
    /\ periodic.ticks = 2
    /\ ~periodic.raised
    /\ Cardinality(PeriodicObjects) = 2
    /\ Len(periodic.started) = 4
    /\ Len(executions) = 5
    /\ periodic.started[1] = 2

----------------------------------------------------------------------------
(* C12 *)

\* C12: in every tick a start attempt is made for every listed object, also
\* for the objects listed after one whose start failed.
C12_AttemptsForEveryListedObject ==
    periodic.attempts = periodic.listed

----------------------------------------------------------------------------
(* C13 *)

\* positions of the calls of execution e that raised in Submitted or Polling
FailedCalls(e) ==
    {i \in 1..Len(executions[e].calls) :
        /\ executions[e].calls[i].status = "error"
        /\ executions[e].calls[i].task \in {"InitiateSbomScan", "CheckScanStatus"}}

\* C13: when the create-scan call of Submitted or the status query of
\* Polling fails, the execution is failed in that stage and stays so: the
\* failed call is the last call the execution ever makes (no retry, no call
\* of a later stage), the stage it failed in is the last stage it entered,
\* it has written no artifact, and it has no result.
C13_FailureIsFatal ==
    \A e \in Execs : \A i \in FailedCalls(e) :
        LET x == executions[e] IN
        /\ x.status = "FAILED"
        /\ i = Len(x.calls)
        /\ x.state = x.calls[i].task
        /\ x.trace[Len(x.trace)] = x.calls[i].task
        /\ "GetScanResults" \notin {x.trace[j] : j \in 1..Len(x.trace)}
        /\ x.calls[i].task = "InitiateSbomScan" =>
                /\ Len(x.trace) = 1
                /\ Len(x.calls) = 1
        /\ CallsOf(e, "put_object") = {}
        /\ x.lam.pc = "idle"
        /\ x.output = <<>>
        /\ HasHandle(e) => KeysUnder(HandleId(e)) = {}

\* C13 witness: one execution failed by its create-scan call and another
\* failed by a status query made after a wait
C13_Witness ==
    \E e1, e2 \in Execs :
        /\ FailedCalls(e1) = {1}
        /\ executions[e1].calls[1].op = "create_sbom_scan"
        /\ executions[e1].status = "FAILED"
        /\ FailedCalls(e2) # {}
        /\ executions[e2].calls[Len(executions[e2].calls)].op = "get_sbom_scan"
        /\ Waits(e2) >= 1
        /\ executions[e2].status = "FAILED"

----------------------------------------------------------------------------
(* C14 *)

----------------------------------------------------------------------------
(* C15 *)

NextRerun ==
    \/ NextLive
    \/ GetScanResults_Reinvoke(1)

\* one execution whose Finalizing handler is invoked a second time
SpecRerun == InitLive /\ [][NextRerun]_vars

----------------------------------------------------------------------------
(* C16 *)

----------------------------------------------------------------------------
(* C17 *)

\* the statuses other than IN_PROGRESS that Polling was answered with
DoneStatuses(e) ==
    {executions[e].calls[i].status : i \in Polls(e)} \ {"IN_PROGRESS"}

\* execution e failed because a call or a handler raised
FailedByError(e) ==
    \/ \E i \in 1..Len(executions[e].calls) : executions[e].calls[i].status = "error"
    \/ executions[e].lam.pc = "raised"

\* C17: an execution whose status query was answered with a status other
\* than IN_PROGRESS, FAILED included, is in Finalizing from then on; an
\* execution fails only because a call or a handler raised, never because of
\* the scan's status; when Finalizing has returned, the three artifacts are
\* stored, and the execution, unless the timeout ended it, has succeeded
\* with a summary whose status, like that of the stored summary and of the
\* stored scan detail, is the status the query was answered with.
C17_FailedScanSucceeds ==
    \A e \in Execs :
        LET x == executions[e] IN
        /\ DoneStatuses(e) # {} =>
            /\ x.state = "GetScanResults"
            /\ x.trace[Len(x.trace)] = "GetScanResults"
            /\ Cardinality(DoneStatuses(e)) = 1
        /\ x.status = "FAILED" => FailedByError(e)
        /\ x.lam.pc = "returned" =>
            /\ x.status \in {"SUCCEEDED", "TIMED_OUT"}
            /\ ThreeKeys(HandleId(e)) \subseteq DOMAIN store
            /\ DoneStatuses(e) = {x.lam.summary.status}
            /\ store[SummaryKey(HandleId(e))].status = x.lam.summary.status
            /\ store[DetailsKey(HandleId(e))].status = x.lam.summary.status
        /\ x.status = "SUCCEEDED" =>
            /\ x.lam.pc = "returned"
            /\ x.output = <<x.lam.summary>>

\* C17 witness: an execution whose scan ended FAILED has succeeded, with the
\* three artifacts stored and FAILED as the status of its summary
C17_Witness ==
    \E e \in Execs :
        /\ executions[e].status = "SUCCEEDED"
        /\ DoneStatuses(e) = {"FAILED"}
        /\ executions[e].output[1].status = "FAILED"
        /\ ThreeKeys(HandleId(e)) \subseteq DOMAIN store
        /\ store[SummaryKey(HandleId(e))].status = "FAILED"

----------------------------------------------------------------------------
(* C18 *)

\* C18: a stored findings.json holds every finding the Scan Service holds
\* for the scan, however many there are, and the totalFindings of a stored
\* summary is their number.
C18_AllFindingsListed ==
    \A i \in 1..Len(scans) :
        LET id == scans[i].sbomScanId IN
        /\ FindingsKey(id) \in DOMAIN store =>
                store[FindingsKey(id)].findings = scans[i].findings
        /\ SummaryKey(id) \in DOMAIN store =>
                store[SummaryKey(id)].totalFindings = Len(scans[i].findings)

----------------------------------------------------------------------------
(* C19 *)

\* the findings of sequence fs that Finalizing counts as INFORMATIONAL
CountedInformational(fs) ==
    Cardinality({i \in 1..Len(fs) : SeverityOf(fs[i]) = "INFORMATIONAL"})

----------------------------------------------------------------------------
(* C20 *)

----------------------------------------------------------------------------
(* C21 *)

\* positions of the status queries execution e made in Finalizing
FinalizingQueries(e) ==
    {i \in CallsOf(e, "get_sbom_scan") :
        /\ executions[e].calls[i].task = "GetScanResults"
        /\ executions[e].calls[i].status # "error"}

\* C21: the status of every summary an execution holds, has stored or has
\* returned is the answer to the status query the execution made in
\* Finalizing, a later call than the Polling query that led there, and it is
\* never IN_PROGRESS: Finalizing is entered only after an answer other than
\* IN_PROGRESS, and the Scan Service does not take a scan back to
\* IN_PROGRESS.
C21_SummaryNeverInProgress ==
    \A e \in Execs :
        LET x == executions[e] IN
        /\ FinalizingQueries(e) # {} =>
            /\ Cardinality(FinalizingQueries(e)) = 1
            /\ \A i \in FinalizingQueries(e) :
                /\ \A j \in Polls(e) : j < i
                /\ x.calls[i].status # "IN_PROGRESS"
                /\ x.lam.summary.status = x.calls[i].status
                /\ x.lam.scan_response.status = x.calls[i].status
            /\ x.lam.summary.status # "IN_PROGRESS"
        /\ x.output # <<>> => x.output[1].status # "IN_PROGRESS"
        /\ HasHandle(e) /\ SummaryKey(HandleId(e)) \in DOMAIN store =>
            /\ FinalizingQueries(e) # {}
            /\ store[SummaryKey(HandleId(e))].status = x.lam.summary.status
            /\ store[SummaryKey(HandleId(e))].status # "IN_PROGRESS"

\* C21 witness: an execution that polled IN_PROGRESS, waited, polled
\* SUCCEEDED and queried the status again in Finalizing has stored and
\* returned a summary with status SUCCEEDED
C21_Witness ==
    \E e \in Execs :
        /\ Waits(e) >= 1
        /\ Cardinality(Polls(e)) >= 2
        /\ Cardinality(FinalizingQueries(e)) = 1
        /\ executions[e].output # <<>>
        /\ executions[e].output[1].status = "SUCCEEDED"
        /\ store[SummaryKey(HandleId(e))].status = "SUCCEEDED"

----------------------------------------------------------------------------
(* C22 *)

\* the scans that have at least one object under scans/<id>/
PresentScans == {n \in 1..Len(scans) : KeysUnder(ScanIdOf(n)) # {}}

\* the scans whose prefix is among the first m in descending order of the
\* prefixes scans/id1/, scans/id2/, ...
FirstDescending(m) ==
    {n \in PresentScans : Cardinality({k \in PresentScans : k > n}) < m}

\* the scans under whose prefix the last run called get_object
ScansRead ==
    {n \in 1..Len(scans) :
        \E i \in 1..Len(report.reads) :
            /\ Len(report.reads[i]) >= Len(Namespace(ScanIdOf(n)))
            /\ SubSeq(report.reads[i], 1, Len(Namespace(ScanIdOf(n)))) =
                    Namespace(ScanIdOf(n))}

\* C22: a run of the dashboard generator with max_scans = m >= 0 reads
\* objects under the prefixes of exactly the scans that come first in
\* descending order of the prefix, at most m of them, and only their
\* findings.json and summary.json; every finding of its result carries the
\* identifier of one of these scans.
C22_NewestScansOnly ==
    (report.tool = "dashboard" /\ report.max_scans >= 0) =>
        /\ ScansRead = FirstDescending(report.max_scans)
        /\ Cardinality(ScansRead) <= report.max_scans
        /\ \A i \in 1..Len(report.reads) :
            \E n \in FirstDescending(report.max_scans) :
                report.reads[i] \in {FindingsKey(ScanIdOf(n)),
                                     SummaryKey(ScanIdOf(n))}
        /\ \A i \in 1..Len(report.findings) :
            \E n \in FirstDescending(report.max_scans) :
                report.findings[i].scanId = ScanIdOf(n)

\* C22 witness: with max_scans = 1 and the artifacts of two scans with
\* findings in the store, the run read only under scans/id2/ and retrieved
\* only findings of id2
C22_Witness ==
    /\ report.tool = "dashboard"
    /\ report.max_scans = 1
    /\ ThreeKeys(ScanIdOf(1)) \cup ThreeKeys(ScanIdOf(2)) = DOMAIN store
    /\ store[SummaryKey(ScanIdOf(1))].totalFindings >= 1
    /\ ScansRead = {2}
    /\ report.findings # <<>>
    /\ \A i \in 1..Len(report.findings) : report.findings[i].scanId = ScanIdOf(2)

----------------------------------------------------------------------------
(* C23 *)

\* both objects the dashboard generator reads for scan n are in the store
Readable(n) ==
    {FindingsKey(ScanIdOf(n)), SummaryKey(ScanIdOf(n))} \subseteq DOMAIN store

\* the findings scan n has to contribute: all of its findings.json when both
\* objects can be read, none otherwise
Contribution(n) ==
    IF Readable(n)
    THEN [i \in 1..Len(store[FindingsKey(ScanIdOf(n))].findings) |->
            [scan |-> n, finding |-> store[FindingsKey(ScanIdOf(n))].findings[i]]]
    ELSE <<>>

RECURSIVE Contributions(_)
\* the contributions of the scans whose findings.json was asked for, in the
\* order of the get_object calls
Contributions(reads) ==
    IF reads = <<>> THEN <<>>
    ELSE LET here == {n \in 1..Len(scans) : Head(reads) = FindingsKey(ScanIdOf(n))}
         IN (IF here = {} THEN <<>> ELSE Contribution(CHOOSE n \in here : TRUE))
            \o Contributions(Tail(reads))

\* C23: the result of a dashboard run is, scan by scan in the order the
\* scans were read, either all the findings of the scan's findings.json,
\* each with the scan's identifier, or nothing; a scan whose findings.json
\* or summary.json cannot be read contributes nothing, the run still ends
\* with its own exit status, and every other selected scan is read and
\* contributes in full.
C23_AllOrNothingPerScan ==
    report.tool = "dashboard" =>
        LET expected == Contributions(report.reads) IN
        /\ Len(report.findings) = Len(expected)
        /\ \A i \in 1..Len(expected) :
            /\ report.findings[i].scanId = ScanIdOf(expected[i].scan)
            /\ \A k \in DOMAIN expected[i].finding :
                    report.findings[i][k] = expected[i].finding[k]
        /\ \A i \in 1..Len(report.findings) :
            \E n \in 1..Len(scans) :
                Readable(n) /\ report.findings[i].scanId = ScanIdOf(n)
        /\ report.max_scans >= Cardinality(PresentScans) =>
            \A n \in PresentScans : FindingsKey(ScanIdOf(n)) \in
                {report.reads[i] : i \in 1..Len(report.reads)}
        /\ report.exit = IF report.findings = <<>> THEN 1 ELSE 0

\* C23 witness: scan id2 has a findings.json with findings but no
\* summary.json, scan id1 has both; the run read id2 first, took nothing
\* from it, and retrieved all the findings of id1
C23_Witness ==
    /\ report.tool = "dashboard"
    /\ report.max_scans = 10
    /\ FindingsKey(ScanIdOf(2)) \in DOMAIN store
    /\ SummaryKey(ScanIdOf(2)) \notin DOMAIN store
    /\ store[FindingsKey(ScanIdOf(2))].findings # <<>>
    /\ Readable(1)
    /\ report.reads[1] = FindingsKey(ScanIdOf(2))
    /\ report.findings # <<>>
    /\ Len(report.findings) = Len(store[FindingsKey(ScanIdOf(1))].findings)
    /\ report.exit = 0

====
